---------------------------- MODULE Spec2Model ----------------------------
(***************************************************************************)
(* Model of the desktop bootstrap src-tauri/src/main.rs:                   *)
(*                                                                         *)
(*   #![cfg_attr(not(debug_assertions), windows_subsystem = "windows")]    *)
(*   fn main() {                                                           *)
(*     tauri::Builder::default()                                           *)
(*       .plugin(tauri_plugin_log::Builder::default().build())             *)
(*       .run(tauri::generate_context!())                                  *)
(*       .expect("error while running tauri application");                 *)
(*   }                                                                     *)
(*                                                                         *)
(* main is one method chain.  Rust evaluates the receiver before the       *)
(* arguments of each call, so the chain is the sequence of steps           *)
(*   Builder::default, log Builder::default().build(), plugin,             *)
(*   generate_context!, run, expect.                                       *)
(* Each step is one action; pc is main's position in the chain.  The       *)
(* framework behind run is outside the file: its result (Err on a failed   *)
(* start) is decided by the host environment, and after a successful start *)
(* the event loop owns the process until the application exits.            *)
(***************************************************************************)
EXTENDS Integers, Sequences, FiniteSets

\* ----------------------------------------------------------------- bounds
\* Number of distinct startup faults a host environment may have.
NumFaults == 2
\* Events the run loop handles before the model stops counting them.
MaxEvents == 2
\* Largest exit code the running application may ask for.
MaxExitCode == 1

\* -------------------------------------------------------------- constants
\* Exit status of a panic that unwinds out of main.
PanicExitStatus == 101
\* Exit status of a panic in a panic=abort build (SIGABRT).
AbortExitStatus == 134

ExpectMsg == "error while running tauri application"
LogPluginName == "log"

PanicStrategies == {"unwind", "abort"}

VARIABLES
  debugAssertions,  \* build: cfg(debug_assertions)
  targetWindows,    \* build: the target is Windows
  hostFault,        \* 0: the framework can initialise; k > 0: startup fault k
  pc,               \* main's position in the method chain
  builder,          \* "none" | "live" | "moved"  (tauri::Builder value)
  plugins,          \* plugin registrations accumulated on the builder
  logPlugin,        \* "none" | "built" | "moved" (the TauriPlugin value)
  context,          \* "none" | "fresh" | "moved" (tauri::Context value)
  runCalls,         \* number of invocations of Builder::run
  runPlugins,       \* the registrations the run call received
  runResult,        \* what run returned into main
  lifecycle,        \* "not_started" | "running" | "terminated"
  logSink,          \* the process-wide logging sink is installed
  eventsHandled,    \* events the run loop has handled
  logRecords,       \* records written through the logging sink
  stderr,           \* messages written to the standard error stream
  exitStatus,       \* -1 while the process lives, else its exit status
  argsRead,         \* std::env::args has been read by main
  steps             \* the calls main has made, in order

vars == <<debugAssertions, targetWindows, hostFault, pc, builder, plugins,
          logPlugin, context, runCalls, runPlugins, runResult, lifecycle,
          logSink, eventsHandled, logRecords, stderr, exitStatus, argsRead,
          steps>>

build == <<debugAssertions, targetWindows, hostFault>>
loop  == <<eventsHandled, logRecords>>

\* ------------------------------------------------------------------ values
NoResult == [tag |-> "none", err |-> 0]
Ok       == [tag |-> "ok",   err |-> 0]
Err(e)   == [tag |-> "err",  err |-> e]
IsErr(r) == r.tag = "err"

\* The logging plugin as built by tauri_plugin_log::Builder::default().build().
DefaultLogPlugin == [name |-> LogPluginName, settings |-> "default"]

HasLogPlugin(ps) == \E i \in 1..Len(ps) : ps[i].name = LogPluginName

\* #![cfg_attr(not(debug_assertions), windows_subsystem = "windows")]
Subsystem ==
  IF ~debugAssertions /\ targetWindows THEN "windows" ELSE "console"

HostValid == hostFault = 0

\* What the panic of expect writes to stderr: the message and the error's
\* Debug form.  console tells whether the process has a console of its own
\* to show it on (a windows-subsystem build has none).
PanicRecord(e) ==
  [msg |-> ExpectMsg, err |-> e, console |-> Subsystem = "console"]

Init ==
  /\ debugAssertions \in BOOLEAN
  /\ targetWindows \in BOOLEAN
  /\ hostFault \in 0..NumFaults
  /\ pc = "start"
  /\ builder = "none"
  /\ plugins = <<>>
  /\ logPlugin = "none"
  /\ context = "none"
  /\ runCalls = 0
  /\ runPlugins = <<>>
  /\ runResult = NoResult
  /\ lifecycle = "not_started"
  /\ logSink = FALSE
  /\ eventsHandled = 0
  /\ logRecords = 0
  /\ stderr = <<>>
  /\ exitStatus = -1
  /\ argsRead = FALSE
  /\ steps = <<>>

\* ------------------------------------------------------------- main's steps

\* Variant of BuilderDefault: the context is generated first, as in
\*   let ctx = tauri::generate_context!(); tauri::Builder::default()...
BuilderDefaultAfterContext ==
  /\ pc = "start"
  /\ builder' = "live"
  /\ plugins' = <<>>
  /\ context' = "fresh"
  /\ steps' = steps \o <<"generate_context", "builder_default">>
  /\ pc' = "built"
  /\ UNCHANGED <<build, logPlugin, runCalls, runPlugins, runResult,
                 lifecycle, logSink, loop, stderr, exitStatus, argsRead>>

\* tauri::Builder::default()
BuilderDefault ==
  /\ pc = "start"
  /\ builder' = "live"
  /\ plugins' = <<>>
  /\ steps' = Append(steps, "builder_default")
  /\ pc' = "built"
  /\ UNCHANGED <<build, logPlugin, context, runCalls, runPlugins, runResult,
                 lifecycle, logSink, loop, stderr, exitStatus, argsRead>>

\* tauri_plugin_log::Builder::default().build()
LogPluginBuild ==
  /\ pc = "built"
  /\ logPlugin' = "built"
  /\ steps' = Append(steps, "log_plugin_build")
  /\ pc' = "log_built"
  /\ UNCHANGED <<build, builder, plugins, context, runCalls, runPlugins,
                 runResult, lifecycle, logSink, loop, stderr, exitStatus,
                 argsRead>>

\* Variant of Plugin: the builder returned by plugin() is dropped, so the
\* registration never reaches the builder that is run.
PluginRegistrationLost ==
  /\ pc = "log_built"
  /\ builder = "live"
  /\ logPlugin = "built"
  /\ logPlugin' = "moved"
  /\ steps' = Append(steps, "plugin")
  /\ pc' = "plugged"
  /\ UNCHANGED <<build, builder, plugins, context, runCalls, runPlugins,
                 runResult, lifecycle, logSink, loop, stderr, exitStatus,
                 argsRead>>

\* Variant of Plugin: a second plugin is attached next to the logging one.
PluginWithExtra ==
  /\ pc = "log_built"
  /\ builder = "live"
  /\ logPlugin = "built"
  /\ plugins' = plugins \o <<[name |-> LogPluginName, settings |-> "default"],
                              [name |-> "shell", settings |-> "default"]>>
  /\ logPlugin' = "moved"
  /\ steps' = Append(steps, "plugin")
  /\ pc' = "plugged"
  /\ UNCHANGED <<build, builder, context, runCalls, runPlugins, runResult,
                 lifecycle, logSink, loop, stderr, exitStatus, argsRead>>

\* Variant of Plugin: the .plugin(...) line is missing from the chain.
PluginSkipped ==
  /\ pc = "log_built"
  /\ pc' = "plugged"
  /\ UNCHANGED <<build, builder, plugins, logPlugin, context, runCalls,
                 runPlugins, runResult, lifecycle, logSink, loop, stderr,
                 exitStatus, argsRead, steps>>

\* .plugin(<log plugin>)
Plugin ==
  /\ pc = "log_built"
  /\ builder = "live"
  /\ logPlugin = "built"
  /\ plugins' = Append(plugins, DefaultLogPlugin)
  /\ logPlugin' = "moved"
  /\ steps' = Append(steps, "plugin")
  /\ pc' = "plugged"
  /\ UNCHANGED <<build, builder, context, runCalls, runPlugins, runResult,
                 lifecycle, logSink, loop, stderr, exitStatus, argsRead>>

\* tauri::generate_context!()
GenerateContext ==
  /\ pc = "plugged"
  /\ context' = "fresh"
  /\ steps' = Append(steps, "generate_context")
  /\ pc' = "ctx"
  /\ UNCHANGED <<build, builder, plugins, logPlugin, runCalls, runPlugins,
                 runResult, lifecycle, logSink, loop, stderr, exitStatus,
                 argsRead>>

\* Variant of Run: a run that does not block; on a successful start it
\* returns Ok(()) into main while the application is running.
RunNonBlocking ==
  /\ pc = "ctx"
  /\ builder = "live"
  /\ context = "fresh"
  /\ builder' = "moved"
  /\ context' = "moved"
  /\ runCalls' = runCalls + 1
  /\ runPlugins' = plugins
  /\ steps' = Append(steps, "run")
  /\ IF HostValid
       THEN /\ lifecycle' = "running"
            /\ logSink' = HasLogPlugin(plugins)
            /\ runResult' = Ok
       ELSE /\ runResult' = Err(hostFault)
            /\ UNCHANGED <<lifecycle, logSink>>
  /\ pc' = "expect"
  /\ UNCHANGED <<build, plugins, logPlugin, loop, stderr, exitStatus, argsRead>>

\* Variant of Run: the call is guarded by a condition that is never met,
\* so every start is reported as a failure.
RunAlwaysErr ==
  /\ pc = "ctx"
  /\ builder = "live"
  /\ context = "fresh"
  /\ builder' = "moved"
  /\ context' = "moved"
  /\ runCalls' = runCalls + 1
  /\ runPlugins' = plugins
  /\ steps' = Append(steps, "run")
  /\ runResult' = Err(hostFault)
  /\ pc' = "expect"
  /\ UNCHANGED <<build, plugins, logPlugin, lifecycle, logSink, loop, stderr,
                 exitStatus, argsRead>>

\* .run(<context>): consumes the builder and the context.  In a host with a
\* startup fault the call returns Err into main, with the registered plugins
\* initialised or not depending on where the start failed; otherwise the
\* application starts and main stays blocked inside the call.
Run ==
  /\ pc = "ctx"
  /\ builder = "live"
  /\ context = "fresh"
  /\ builder' = "moved"
  /\ context' = "moved"
  /\ runCalls' = runCalls + 1
  /\ runPlugins' = plugins
  /\ steps' = Append(steps, "run")
  /\ IF HostValid
       THEN /\ lifecycle' = "running"
            /\ logSink' = HasLogPlugin(plugins)
            /\ runResult' = runResult
            /\ pc' = "in_run"
       ELSE /\ runResult' = Err(hostFault)
            /\ pc' = "expect"
            /\ \E initialised \in BOOLEAN :
                 logSink' = (initialised /\ HasLogPlugin(plugins))
            /\ UNCHANGED lifecycle
  /\ UNCHANGED <<build, plugins, logPlugin, loop, stderr, exitStatus, argsRead>>

\* Variant of Expect: the error is dropped (.ok() in place of .expect(...)),
\* main returns normally.
ExpectSwallowsErr ==
  /\ pc = "expect"
  /\ runResult # NoResult
  /\ exitStatus' = 0
  /\ pc' = "returned"
  /\ lifecycle' = "terminated"
  /\ steps' = Append(steps, "expect")
  /\ UNCHANGED <<build, builder, plugins, logPlugin, context, runCalls,
                 runPlugins, runResult, logSink, loop, stderr, argsRead>>

\* Variant of Expect: the error is reported but the process is kept alive
\* (the message is printed and main parks in place of panicking).
ExpectHangs ==
  /\ pc = "expect"
  /\ runResult # NoResult
  /\ stderr' = Append(stderr, PanicRecord(runResult.err))
  /\ pc' = "parked"
  /\ steps' = Append(steps, "expect")
  /\ UNCHANGED <<build, builder, plugins, logPlugin, context, runCalls,
                 runPlugins, runResult, lifecycle, logSink, loop, exitStatus,
                 argsRead>>

\* Variant of Expect: on Err the chain is started over (a retry loop around
\* the chain), up to two retries.
ExpectRetries ==
  /\ pc = "expect"
  /\ runResult # NoResult
  /\ IF IsErr(runResult) /\ runCalls < 3
       THEN /\ pc' = "start"
            /\ steps' = <<>>
            /\ runResult' = NoResult
            /\ UNCHANGED <<lifecycle, exitStatus, stderr>>
       ELSE /\ stderr' = Append(stderr, PanicRecord(runResult.err))
            /\ exitStatus' = PanicExitStatus
            /\ pc' = "panicked"
            /\ lifecycle' = "terminated"
            /\ steps' = Append(steps, "expect")
            /\ UNCHANGED runResult
  /\ UNCHANGED <<build, builder, plugins, logPlugin, context, runCalls,
                 runPlugins, logSink, loop, argsRead>>

\* .expect("error while running tauri application") on the returned Result:
\* Err(e) panics with the message and e; Ok(()) lets main return.
Expect ==
  /\ pc = "expect"
  /\ runResult # NoResult
  /\ IF IsErr(runResult)
       THEN \E strategy \in PanicStrategies :
              /\ stderr' = Append(stderr, PanicRecord(runResult.err))
              /\ exitStatus' = IF strategy = "unwind" THEN PanicExitStatus
                                                      ELSE AbortExitStatus
              /\ pc' = "panicked"
       ELSE /\ exitStatus' = 0
            /\ pc' = "returned"
            /\ UNCHANGED stderr
  /\ lifecycle' = "terminated"
  /\ steps' = Append(steps, "expect")
  /\ UNCHANGED <<build, builder, plugins, logPlugin, context, runCalls,
                 runPlugins, runResult, logSink, loop, argsRead>>

\* ------------------------------------------------- inside the blocking run

\* The run loop handles one event; the application may write a log record
\* through the sink when one is installed.
LoopEvent ==
  /\ pc = "in_run"
  /\ lifecycle = "running"
  /\ eventsHandled < MaxEvents
  /\ eventsHandled' = eventsHandled + 1
  /\ \E emit \in BOOLEAN :
       logRecords' = IF emit /\ logSink THEN logRecords + 1 ELSE logRecords
  /\ UNCHANGED <<build, pc, builder, plugins, logPlugin, context, runCalls,
                 runPlugins, runResult, lifecycle, logSink, stderr, exitStatus,
                 argsRead, steps>>

\* The application exits: the framework ends the process with the exit code
\* the application asked for, without returning into main.
AppExit ==
  /\ pc = "in_run"
  /\ lifecycle = "running"
  /\ \E code \in 0..MaxExitCode : exitStatus' = code
  /\ lifecycle' = "terminated"
  /\ pc' = "exited"
  /\ UNCHANGED <<build, builder, plugins, logPlugin, context, runCalls,
                 runPlugins, runResult, logSink, loop, stderr, argsRead, steps>>

MainStep ==
  \/ BuilderDefault
  \/ LogPluginBuild
  \/ Plugin
  \/ GenerateContext
  \/ Run
  \/ Expect

Next ==
  \/ BuilderDefault
  \/ LogPluginBuild
  \/ Plugin
  \/ GenerateContext
  \/ Run
  \/ Expect
  \/ LoopEvent
  \/ AppExit

Spec == Init /\ [][Next]_vars

\* main runs on the main thread with nothing to wait for: each step of the
\* chain is taken once it is enabled.
FairSpec == Spec /\ WF_vars(MainStep)

\* ========================================================================
\* Properties
\* ========================================================================

TypeOK ==
  /\ pc \in {"start", "built", "log_built", "plugged", "ctx", "in_run",
             "expect", "panicked", "returned", "exited"}
  /\ builder \in {"none", "live", "moved"}
  /\ logPlugin \in {"none", "built", "moved"}
  /\ context \in {"none", "fresh", "moved"}
  /\ lifecycle \in {"not_started", "running", "terminated"}
  /\ runCalls \in Nat
  /\ eventsHandled \in 0..MaxEvents
  /\ logRecords \in 0..MaxEvents
  /\ exitStatus \in {-1, PanicExitStatus, AbortExitStatus} \cup 0..MaxExitCode

\* run has returned an error into main and expect has not yet acted on it.
RunFailed == pc = "expect" /\ IsErr(runResult)

\* The process was ended by the panic of expect: diagnostic on stderr,
\* non-zero exit status.
Aborted ==
  /\ lifecycle = "terminated"
  /\ pc = "panicked"
  /\ exitStatus > 0
  /\ Len(stderr) = 1
  /\ stderr[1].msg = ExpectMsg
  /\ stderr[1].err = runResult.err

\* C1: when run returns an error, the only step out of that state ends the
\* process with the diagnostic on stderr and a non-zero exit status, that step
\* is taken, and an execution in which run failed never has the application
\* running, before or after the failure.
C1_FailedRunAborts ==
  /\ [][RunFailed => Aborted']_vars
  /\ (RunFailed ~> Aborted)
  /\ [](IsErr(runResult) => [](lifecycle # "running"))
  /\ [](lifecycle = "running" => [](~IsErr(runResult)))

C1_Witness ==
  /\ pc = "panicked"
  /\ IsErr(runResult)
  /\ exitStatus = PanicExitStatus
  /\ Len(stderr) = 1
  /\ lifecycle = "terminated"

\* C2: run is invoked at most once in every execution, also after a failed
\* start.
C2_RunAtMostOnce == runCalls <= 1

C2_Witness == runCalls = 1 /\ pc = "panicked" /\ IsErr(runResult)

IndexOf(seq, x) == CHOOSE i \in 1..Len(seq) : seq[i] = x
Occurs(seq, x) == \E i \in 1..Len(seq) : seq[i] = x

\* C3: once run has been invoked the builder had been constructed and the
\* logging plugin registered on it before the call, the builder is consumed,
\* and no step after the call changes the registrations.
C3_ConfigureBeforeRun ==
  /\ [](runCalls > 0 =>
          /\ builder = "moved"
          /\ HasLogPlugin(runPlugins)
          /\ Occurs(steps, "builder_default")
          /\ Occurs(steps, "plugin")
          /\ Occurs(steps, "run")
          /\ IndexOf(steps, "builder_default") < IndexOf(steps, "plugin")
          /\ IndexOf(steps, "plugin") < IndexOf(steps, "run"))
  /\ [][runCalls > 0 => plugins' = plugins /\ builder' = "moved"]_vars

C3_Witness ==
  /\ runCalls = 1
  /\ lifecycle = "running"
  /\ builder = "moved"
  /\ HasLogPlugin(runPlugins)

\* C4: the registrations on the builder are always either none or exactly
\* the logging plugin with default settings; when run is about to be invoked
\* and in the call itself they are exactly the logging plugin.
C4_OnlyLogPlugin ==
  /\ plugins \in {<<>>, <<DefaultLogPlugin>>}
  /\ (pc = "ctx" => plugins = <<DefaultLogPlugin>>)
  /\ (runCalls > 0 => runPlugins = <<DefaultLogPlugin>>)

C4_Witness == runCalls = 1 /\ runPlugins = <<DefaultLogPlugin>> /\ pc = "in_run"

\* C5: nothing has happened before the builder is constructed, expect is the
\* only thing main does after run has returned, while the application runs
\* control is still inside run, and run has returned into main only with an
\* error.
C5_NothingBeforeOrAfter ==
  /\ (steps # <<>> => steps[1] = "builder_default")
  /\ (pc = "start" =>
        /\ builder = "none" /\ plugins = <<>> /\ logPlugin = "none"
        /\ context = "none" /\ runCalls = 0 /\ ~logSink /\ stderr = <<>>
        /\ ~argsRead /\ lifecycle = "not_started")
  /\ (Occurs(steps, "run") =>
        SubSeq(steps, IndexOf(steps, "run") + 1, Len(steps)) \in {<<>>, <<"expect">>})
  /\ (lifecycle = "running" => pc = "in_run" /\ runResult = NoResult)
  /\ (pc \in {"expect", "panicked", "returned"} => IsErr(runResult))
  /\ pc # "returned"

C5_WitnessReturn == pc = "expect" /\ IsErr(runResult) /\ steps[Len(steps)] = "run"

\* C6: from the start of the process in a host where the framework can
\* initialise, the application eventually is running.
C6_ValidHostRuns == (pc = "start" /\ HostValid) ~> (lifecycle = "running")

C6_Witness == HostValid /\ lifecycle = "running" /\ runCalls = 1

NamedSteps == <<"builder_default", "plugin", "generate_context", "run">>
IsNamedStep(x) == \E i \in 1..Len(NamedSteps) : NamedSteps[i] = x
IsPrefix(a, b) == Len(a) <= Len(b) /\ a = SubSeq(b, 1, Len(a))

\* C7: builder construction, plugin attachment, context generation and run
\* happen in that order, none of them twice, all four once run has been
\* invoked; the context exists only after the attachment, is fresh only
\* before run, and is consumed by the one run call.
C7_StrictOrder ==
  /\ IsPrefix(SelectSeq(steps, IsNamedStep), NamedSteps)
  /\ (runCalls > 0 => SelectSeq(steps, IsNamedStep) = NamedSteps)
  /\ (context # "none" => plugins # <<>> /\ logPlugin = "moved")
  /\ (context = "fresh" <=> pc = "ctx")
  /\ (context = "fresh" => runCalls = 0)
  /\ (context = "moved" <=> runCalls = 1)

C7_Witness ==
  /\ SelectSeq(steps, IsNamedStep) = NamedSteps
  /\ context = "moved"
  /\ runCalls = 1

LifecycleRank(l) ==
  CASE l = "not_started" -> 0
    [] l = "running" -> 1
    [] l = "terminated" -> 2

\* C8: the lifecycle never moves backwards, terminated is never left, and a
\* state has no successor exactly when it is terminated.
C8_LifecycleForward ==
  /\ [][LifecycleRank(lifecycle') >= LifecycleRank(lifecycle)]_vars
  /\ [][lifecycle = "terminated" => lifecycle' = "terminated"]_vars
  /\ [](lifecycle = "terminated" <=> ~ENABLED Next)

C8_Witness == lifecycle = "terminated" /\ pc = "exited" /\ eventsHandled > 0

\* C9: whenever the application is running the logging plugin is registered
\* and its sink installed; records reach the sink only then; main reads no
\* command-line arguments and writes to stderr only in the panic of expect.
C9_LogSinkWhileRunning ==
  /\ (lifecycle = "running" => logSink /\ HasLogPlugin(runPlugins))
  /\ (logSink => HasLogPlugin(runPlugins) /\ runCalls = 1)
  /\ (logRecords > 0 => logSink)
  /\ ~argsRead
  /\ (stderr # <<>> => pc = "panicked")
  /\ (pc \in {"start", "built", "log_built", "plugged", "ctx"} =>
        ~logSink /\ exitStatus = -1 /\ lifecycle = "not_started")

C9_Witness == lifecycle = "running" /\ logSink /\ logRecords > 0


=============================================================================
